---- MODULE Spec2Model ----
(***************************************************************************)
(* Pac-Watch (src/main.py): one invocation of main() loads the record      *)
(* store from S3, trims it to the retention window, pulls the latest       *)
(* independent expenditures, keeps those not yet in the store, writes the  *)
(* store back, groups the new contributions and tweets one message per     *)
(* group.  The model runs main() up to MaxRuns times against one S3        *)
(* object; the feed, the S3 and Twitter outcomes and the run options are   *)
(* inputs.                                                                 *)
(*                                                                         *)
(* Text is held in the state as TLA+ strings; Chars gives the characters   *)
(* of each string of the input dictionaries, and every string operation of *)
(* the code (split, slicing, lower, replace, len, format) is computed on   *)
(* those characters.  Of the feed columns that main.py never reads by name *)
(* (cmteid, payee, origin, source) the model carries payee.  Calendar      *)
(* dates are day numbers.                                                  *)
(***************************************************************************)
EXTENDS Integers, Sequences, FiniteSets, TLC

\* ------------------------------------------------------------------ bounds
MaxRuns == 2          \* invocations of main() in one behaviour
MaxFeed == 2          \* entries in one feed snapshot
Day0 == 10            \* the day of the first run
WindowDays == 3       \* the n_prev_days every run is called with
MinReportAmt == 1000  \* the min_report_amt every run is called with
LongLen == 300        \* length of the long purpose note of the input dictionary

\* ------------------------------------------------------------- characters
\* The characters the input dictionaries and the message templates use, in
\* code point order.
Alphabet ==
  <<"\n", " ", "$", "(", ")", ",", "-", ".",
    "0", "1", "2", "3", "4", "5", "6", "7", "8", "9",
    "A", "B", "C", "D", "E", "F", "G", "H", "I", "J", "K", "L", "M",
    "N", "O", "P", "Q", "R", "S", "T", "U", "V", "W", "X", "Y", "Z",
    "a", "b", "c", "d", "e", "f", "g", "h", "i", "j", "k", "l", "m",
    "n", "o", "p", "q", "r", "s", "t", "u", "v", "w", "x", "y", "z">>

Ord(c) == CHOOSE i \in 1..Len(Alphabet) : Alphabet[i] = c

DigitChars == <<"0", "1", "2", "3", "4", "5", "6", "7", "8", "9">>

IsDigit(c) == \E i \in 1..Len(DigitChars) : DigitChars[i] = c

DigitVal(c) == (CHOOSE i \in 1..Len(DigitChars) : DigitChars[i] = c) - 1

IsUpper(c) == Ord(c) >= Ord("A") /\ Ord(c) <= Ord("Z")

LongNote == "xxx..."

\* The characters of a string: the input dictionaries and the literals of
\* get_tweet_body.
Chars(s) ==
  CASE s = "Acme" -> <<"A", "c", "m", "e">>
    [] s = "Beta.org" -> <<"B", "e", "t", "a", ".", "o", "r", "g">>
    [] s = "Supports" -> <<"S", "u", "p", "p", "o", "r", "t", "s">>
    [] s = "Opposes" -> <<"O", "p", "p", "o", "s", "e", "s">>
    [] s = "Doe, Jane" -> <<"D", "o", "e", ",", " ", "J", "a", "n", "e">>
    [] s = "Roe, Rick" -> <<"R", "o", "e", ",", " ", "R", "i", "c", "k">>
    [] s = "Madonna" -> <<"M", "a", "d", "o", "n", "n", "a">>
    [] s = "CA25" -> <<"C", "A", "2", "5">>
    [] s = "NYS1" -> <<"N", "Y", "S", "1">>
    [] s = "D" -> <<"D">>
    [] s = "R" -> <<"R">>
    [] s = "ads" -> <<"a", "d", "s">>
    [] s = "mail" -> <<"m", "a", "i", "l">>
    [] s = "Vox" -> <<"V", "o", "x">>
    [] s = "Ink" -> <<"I", "n", "k">>
    [] s = "5000" -> <<"5", "0", "0", "0">>
    [] s = "300" -> <<"3", "0", "0">>
    [] s = "700" -> <<"7", "0", "0">>
    [] s = "abc" -> <<"a", "b", "c">>
    [] s = "08" -> <<"0", "8">>
    [] s = "09" -> <<"0", "9">>
    [] s = "01" -> <<"0", "1">>
    [] s = "soon" -> <<"s", "o", "o", "n">>
    [] s = " " -> <<" ">>
    [] s = "" -> <<>>
    [] s = " spends $" -> <<" ", "s", "p", "e", "n", "d", "s", " ", "$">>
    [] s = " on " -> <<" ", "o", "n", " ">>
    [] s = " (" -> <<" ", "(">>
    [] s = "-" -> <<"-">>
    [] s = ")." -> <<")", ".">>
    [] s = "\n\nThey have now spent $" -> <<"\n", "\n", "T", "h", "e", "y", " ", "h", "a", "v", "e", " ", "n", "o", "w", " ", "s", "p", "e", "n", "t", " ", "$">>
    [] s = " in the past " -> <<" ", "i", "n", " ", "t", "h", "e", " ", "p", "a", "s", "t", " ">>
    [] s = " days" -> <<" ", "d", "a", "y", "s">>
    [] s = "." -> <<".">>
    [] s = ".com" -> <<".", "c", "o", "m">>
    [] s = " dot com" -> <<" ", "d", "o", "t", " ", "c", "o", "m">>
    [] s = ".org" -> <<".", "o", "r", "g">>
    [] s = " dot org" -> <<" ", "d", "o", "t", " ", "o", "r", "g">>
    [] s = ".gov" -> <<".", "g", "o", "v">>
    [] s = " dot gov" -> <<" ", "d", "o", "t", " ", "g", "o", "v">>
    [] s = ".net" -> <<".", "n", "e", "t">>
    [] s = " dot net" -> <<" ", "d", "o", "t", " ", "n", "e", "t">>
    [] s = ".edu" -> <<".", "e", "d", "u">>
    [] s = " dot edu" -> <<" ", "d", "o", "t", " ", "e", "d", "u">>
    [] s = ", " -> <<",", " ">>
    [] s = "S" -> <<"S">>
    [] s = LongNote -> [i \in 1..LongLen |-> "x"]

\* str.lower()
Lower(cs) ==
  [i \in 1..Len(cs) |->
     IF IsUpper(cs[i]) THEN Alphabet[Ord(cs[i]) + (Ord("a") - Ord("A"))] ELSE cs[i]]

\* cs[at : at + len(pat)] == pat
MatchAt(cs, pat, at) ==
  /\ at + Len(pat) - 1 <= Len(cs)
  /\ \A k \in 1..Len(pat) : cs[at + k - 1] = pat[k]

\* pat in cs
Contains(cs, pat) == \E at \in 1..Len(cs) : MatchAt(cs, pat, at)

RECURSIVE ReplaceFrom(_, _, _, _)
ReplaceFrom(cs, pat, rep, at) ==
  IF at > Len(cs) THEN <<>>
  ELSE IF MatchAt(cs, pat, at)
       THEN rep \o ReplaceFrom(cs, pat, rep, at + Len(pat))
       ELSE <<cs[at]>> \o ReplaceFrom(cs, pat, rep, at + 1)

\* str.replace(pat, rep)
Replace(cs, pat, rep) == ReplaceFrom(cs, pat, rep, 1)

RECURSIVE SplitFrom(_, _, _, _)
SplitFrom(cs, sep, at, start) ==
  IF at > Len(cs) THEN <<SubSeq(cs, start, Len(cs))>>
  ELSE IF MatchAt(cs, sep, at)
       THEN <<SubSeq(cs, start, at - 1)>>
              \o SplitFrom(cs, sep, at + Len(sep), at + Len(sep))
       ELSE SplitFrom(cs, sep, at + 1, start)

\* str.split(sep)
Split(cs, sep) == SplitFrom(cs, sep, 1, 1)

RECURSIVE Str(_)
\* str(n) of a non-negative integer
Str(n) == IF n < 10 THEN <<DigitChars[n + 1]>>
          ELSE Str(n \div 10) \o <<DigitChars[(n % 10) + 1]>>

RECURSIVE ParseDigits(_, _)
ParseDigits(cs, acc) ==
  IF cs = <<>> THEN acc ELSE ParseDigits(Tail(cs), 10 * acc + DigitVal(Head(cs)))

\* The text is a number the conversions accept: a run of digits.
IsNumeric(cs) == cs # <<>> /\ \A k \in 1..Len(cs) : IsDigit(cs[k])

RECURSIVE Commas(_)
\* '{:,}'.format(n)
Commas(n) ==
  IF n < 1000 THEN Str(n)
  ELSE Commas(n \div 1000) \o <<",">>
         \o <<DigitChars[((n % 1000) \div 100) + 1],
              DigitChars[((n % 100) \div 10) + 1],
              DigitChars[(n % 10) + 1]>>

\* cs < ds in Python's string order
RECURSIVE LexLess(_, _)
LexLess(cs, ds) ==
  IF ds = <<>> THEN FALSE
  ELSE IF cs = <<>> THEN TRUE
  ELSE IF Head(cs) = Head(ds) THEN LexLess(Tail(cs), Tail(ds))
  ELSE Ord(Head(cs)) < Ord(Head(ds))

\* ------------------------------------------------------------ the feed
NA == "<NA>"          \* a missing value of a text column (pd.NA, NaN)
NaT == -1             \* a missing value of the date column

FeedCols ==
  {"pacshort", "suppopp", "candname", "district", "amount", "note", "party",
   "payee", "date"}

StoreCols == FeedCols \cup {"timestamp"}

KeyColumns == {"pacshort", "suppopp", "candname", "amount"}

E1 == [pacshort |-> "Acme", suppopp |-> "Supports", candname |-> "Doe, Jane",
       district |-> "CA25", amount |-> "5000", note |-> "ads", party |-> "D",
       payee |-> "Vox", date |-> "08"]

\* The '@attributes' of the entries a feed snapshot is drawn from: a usual
\* entry; one of the same group; one disclosed before the retention window;
\* a blank, an unparseable and an absent amount; a name without ", "; a
\* blank district; the contributor, stance and recipient of E1 under another
\* district; a purpose note longer than a tweet; an unparseable date.
Entries ==
  << E1,
     [E1 EXCEPT !.amount = "300", !.payee = "Ink", !.date = "09"],
     [pacshort |-> "Beta.org", suppopp |-> "Opposes", candname |-> "Roe, Rick",
      district |-> "NYS1", amount |-> "700", note |-> "mail", party |-> "R",
      payee |-> "Ink", date |-> "01"],
     [E1 EXCEPT !.amount = " "],
     [E1 EXCEPT !.amount = "abc"],
     [c \in FeedCols \ {"amount"} |-> E1[c]],
     [E1 EXCEPT !.candname = "Madonna", !.suppopp = "Opposes"],
     [E1 EXCEPT !.pacshort = "Beta.org", !.district = "", !.amount = "700"],
     [E1 EXCEPT !.district = "NYS1"],
     [E1 EXCEPT !.note = LongNote, !.payee = "Ink"],
     [E1 EXCEPT !.date = "soon"],
     [E1 EXCEPT !.note = " ", !.amount = "700"],
     [E1 EXCEPT !.party = "", !.amount = "300"] >>

\* The entries the snapshots of main's runs are drawn from.
MainEntries == {1, 2, 3, 4, 5, 6, 7, 9, 11}

\* The snapshots of at most MaxFeed entries, in the order of Entries.
Feeds ==
  UNION {{[k \in 1..n |-> Entries[f[k]]] :
            f \in {g \in [1..n -> MainEntries] :
                     \A k \in 1..(n - 1) : g[k] <= g[k + 1]}} : n \in 0..MaxFeed}

\* What get_check_errors can parse out of a 2xx response: a JSON value that
\* is no object, an object without response.indexp, or the feed.
Payloads ==
  {[isdict |-> FALSE, wellformed |-> FALSE, indexp |-> <<>>],
   [isdict |-> TRUE, wellformed |-> FALSE, indexp |-> <<>>]}
    \cup {[isdict |-> TRUE, wellformed |-> TRUE, indexp |-> f] : f \in Feeds}

\* ------------------------------------------------------ get_latest_data
\* ^\s*$
IsBlank(cs) == \A k \in 1..Len(cs) : cs[k] \in {" ", "\n"}

\* The columns of pd.DataFrame(list of dicts): the keys of any entry.
Columns(indexp) == UNION {DOMAIN indexp[k] : k \in 1..Len(indexp)}

\* A cell of the frame after the whitespace replacement: a key an entry
\* lacks and a blank string are both missing.
Cell(d, c) == IF c \in DOMAIN d /\ ~IsBlank(Chars(d[c])) THEN d[c] ELSE NA

\* pd.to_datetime of one cell
ToDatetime(cs) == IF cs = <<>> THEN NaT ELSE ParseDigits(cs, 0)

\* A row after the two conversions.
Typed(d) ==
  [c \in FeedCols |->
     IF c = "amount" THEN ParseDigits(Chars(d[c]), 0)
     ELSE IF c = "date"
          THEN (IF Cell(d, c) = NA THEN NaT ELSE ToDatetime(Chars(d[c])))
          ELSE Cell(d, c)]

\* dropna(subset=key_columns)
DropNa(indexp) ==
  SelectSeq(indexp, LAMBDA d : \A c \in KeyColumns : Cell(d, c) # NA)

\* Lines 150-160: the frame of the payload's entries, cleaned and typed;
\* exc names the exception the lines raise, "" when they raise none.
Normalize(indexp) ==
  LET kept == DropNa(indexp) IN
  IF ~(KeyColumns \subseteq Columns(indexp))
  THEN [exc |-> "KeyError", rows |-> <<>>]
  ELSE IF \E k \in 1..Len(kept) : ~IsNumeric(Chars(kept[k].amount))
  THEN [exc |-> "ValueError", rows |-> <<>>]
  ELSE IF "date" \notin Columns(indexp)
  THEN [exc |-> "KeyError", rows |-> <<>>]
  ELSE IF \E k \in 1..Len(kept) :
            Cell(kept[k], "date") # NA /\ ~IsNumeric(Chars(kept[k].date))
  THEN [exc |-> "ValueError", rows |-> <<>>]
  ELSE [exc |-> "", rows |-> [k \in 1..Len(kept) |-> Typed(kept[k])]]

\* Mutant of SameRecord: the merge joins on the key columns only.
SameRecord_KeyColumnsOnly(r, s) == \A c \in KeyColumns : r[c] = s[c]

\* Two rows agree on every column the merge joins on.
SameRecord(r, s) == \A c \in FeedCols : r[c] = s[c]

InFrame(r, df) == \E k \in 1..Len(df) : SameRecord(r, df[k])

\* merge(how='left', indicator=True) and the left_only filter
LeftOnly(fresh, records) == SelectSeq(fresh, LAMBDA r : ~InFrame(r, records))

\* a sorts before b: date ascending with NaT last, then amount descending
SortsBefore(a, b) ==
  IF a.date # b.date
  THEN a.date # NaT /\ (b.date = NaT \/ a.date < b.date)
  ELSE a.amount > b.amount

RECURSIVE InsertRow(_, _)
InsertRow(sorted, r) ==
  IF sorted = <<>> THEN <<r>>
  ELSE IF SortsBefore(r, Head(sorted)) THEN <<r>> \o sorted
  ELSE <<Head(sorted)>> \o InsertRow(Tail(sorted), r)

RECURSIVE SortValues(_)
\* sort_values(by=["date","amount"], ascending=[True, False]), stable
SortValues(df) ==
  IF df = <<>> THEN <<>>
  ELSE InsertRow(SortValues(SubSeq(df, 1, Len(df) - 1)), df[Len(df)])

\* Lines 167-171: the new rows get the time of the pull and are sorted.
Stamp(df, now) ==
  SortValues([k \in 1..Len(df) |->
     [c \in StoreCols |-> IF c = "timestamp" THEN Str(now) ELSE df[k][c]]])

\* Lines 162-173
NewRows(fresh, records, now) ==
  LET new_df == LeftOnly(fresh, records)
  IN IF Len(new_df) > 0 THEN Stamp(new_df, now) ELSE new_df

\* ------------------------------------------------------ the record store
\* One row of records_df.to_csv: numbers and dates are written as text, a
\* missing value as the empty cell.
CsvRow(r) ==
  [c \in StoreCols |->
     IF c = "amount" THEN Str(r.amount)
     ELSE IF c = "date" THEN (IF r.date = NaT THEN <<>> ELSE Str(r.date))
     ELSE IF c = "timestamp" THEN r.timestamp
     ELSE IF r[c] = NA THEN "" ELSE r[c]]

ToCsv(df) == [k \in 1..Len(df) |-> CsvRow(df[k])]

\* One row of pd.read_csv: an empty cell is missing, the amount column is
\* numeric, the date column is still text.
ReadRow(line) ==
  [c \in StoreCols |->
     IF c = "amount" THEN ParseDigits(line.amount, 0)
     ELSE IF c \in {"date", "timestamp"} THEN line[c]
     ELSE IF line[c] = "" THEN NA ELSE line[c]]

ReadCsv(body) == [k \in 1..Len(body) |-> ReadRow(body[k])]

\* Mutant of DateFilter: a record dated at the cutoff is removed.
DateFilter_Strict(df, now, n_prev_days) ==
  SelectSeq(df, LAMBDA r : r.date # NaT /\ r.date > now - n_prev_days)

\* Lines 294-295: records_df[records_df['date'] >= date_cutoff]; a missing
\* date compares false.
DateFilter(df, now, n_prev_days) ==
  SelectSeq(df, LAMBDA r : r.date # NaT /\ r.date >= now - n_prev_days)

\* Lines 291-295: the date column read from the file is converted, then
\* the frame is filtered.
TrimRecords(df, now, n_prev_days) ==
  IF Len(df) > 0
  THEN DateFilter([k \in 1..Len(df) |-> [df[k] EXCEPT !.date = ToDatetime(@)]],
                  now, n_prev_days)
  ELSE df

\* ---------------------------------------------------------------- groupby
group_cols == <<"pacshort", "suppopp", "candname", "district", "party">>

latest_group_cols == group_cols \o <<"note">>

Key(r, cols) == [k \in 1..Len(cols) |-> r[cols[k]]]

\* groupby drops the rows with a missing value in a grouping column.
HasKey(r, cols) == \A k \in 1..Len(cols) : r[cols[k]] # NA

RECURSIVE KeyLess(_, _)
KeyLess(a, b) ==
  IF a = <<>> THEN FALSE
  ELSE IF Head(a) = Head(b) THEN KeyLess(Tail(a), Tail(b))
  ELSE LexLess(Chars(Head(a)), Chars(Head(b)))

RECURSIVE SortKeys(_)
SortKeys(keys) ==
  IF keys = {} THEN <<>>
  ELSE LET least == CHOOSE a \in keys : \A b \in keys : ~KeyLess(b, a)
       IN <<least>> \o SortKeys(keys \ {least})

RECURSIVE SumAmount(_, _, _)
SumAmount(df, cols, key) ==
  IF df = <<>> THEN 0
  ELSE (IF HasKey(Head(df), cols) /\ Key(Head(df), cols) = key
        THEN Head(df).amount ELSE 0) + SumAmount(Tail(df), cols, key)

\* df.groupby(cols, as_index=False)["amount"].sum(): one row per key, in
\* the order of the keys.
GroupBy(df, cols) ==
  LET keys == SortKeys({Key(df[k], cols) : k \in {j \in 1..Len(df) : HasKey(df[j], cols)}})
  IN [g \in 1..Len(keys) |->
        [c \in {cols[k] : k \in 1..Len(cols)} \cup {"amount"} |->
           IF c = "amount" THEN SumAmount(df, cols, keys[g])
           ELSE keys[g][CHOOSE k \in 1..Len(cols) : cols[k] = c]]]

\* Lines 335-341: the amount of the first row of grouped_records_df with
\* the row's contributor, stance and recipient; <<>> is None.
SumContribution(grouped_records_df, row, report_sum_contributions) ==
  LET match_row == SelectSeq(grouped_records_df,
                     LAMBDA g : /\ g.pacshort = row.pacshort
                                /\ g.suppopp = row.suppopp
                                /\ g.candname = row.candname)
  IN IF report_sum_contributions /\ Len(match_row) > 0
     THEN <<match_row[1].amount>> ELSE <<>>

\* --------------------------------------------------------- get_tweet_body
char_limit == 280

\* Mutant of Prefix: the body is not cut.
Prefix_Whole(cs, n) == cs

\* cs[:n]
Prefix(cs, n) ==
  IF n >= 0 THEN SubSeq(cs, 1, IF n < Len(cs) THEN n ELSE Len(cs))
  ELSE SubSeq(cs, 1, Len(cs) + n)

Escape(pac, dom, word) ==
  IF Contains(pac, Chars(dom)) THEN Replace(pac, Chars(dom), Chars(word)) ELSE pac

\* Lines 200-210
EscapeDomains(pac) ==
  Escape(Escape(Escape(Escape(Escape(pac, ".com", " dot com"),
    ".org", " dot org"), ".gov", " dot gov"), ".net", " dot net"),
    ".edu", " dot edu")

\* Lines 190-242.  sum_prev_contribution is <<>> for None.  exc names the
\* exception the function raises, "" when it returns body.
get_tweet_body(row, sum_prev_contribution, n_prev_days, limit) ==
  LET pac == EscapeDomains(Chars(row.pacshort))
      amount == row.amount
      amount_str == Commas(amount)
      purpose == Lower(Chars(row.note))
      suppopp == Lower(SubSeq(Chars(row.suppopp), 1, Len(Chars(row.suppopp)) - 1))
      names == Split(Chars(row.candname), Chars(", "))
      dist == Chars(row.district)
      sp == Chars(" ")
      cumulative == sum_prev_contribution # <<>> /\ sum_prev_contribution[1] > amount
  IN IF Len(names) < 2 \/ Len(dist) < 3
     THEN [exc |-> "IndexError", body |-> <<>>]
     ELSE
       LET firstname == names[2]
           lastname == names[1]
           district == IF dist[3] = "S" THEN SubSeq(dist, 1, 2) ELSE dist
           district_string == Chars("-") \o district
           who == suppopp \o sp \o firstname \o sp \o lastname \o Chars(" (")
                    \o Chars(row.party) \o district_string \o Chars(").")
           time_string == Str(n_prev_days) \o Chars(" days")
           clause == Chars("\n\nThey have now spent $")
                       \o Commas(sum_prev_contribution[1]) \o sp \o suppopp \o sp
                       \o lastname \o Chars(" in the past ") \o time_string
                       \o Chars(".")
           full == pac \o Chars(" spends $") \o amount_str \o Chars(" on ")
                     \o purpose \o sp \o who
           body1 == IF cumulative THEN full \o clause ELSE full
           short == pac \o Chars(" spends $") \o amount_str \o sp \o who
       IN IF Len(body1) <= limit
          THEN [exc |-> "", body |-> body1]
          ELSE IF sum_prev_contribution # <<>> /\ ~cumulative
          THEN [exc |-> "NameError", body |-> <<>>]
          ELSE LET body2 == IF sum_prev_contribution # <<>>
                            THEN short \o clause ELSE short
               IN [exc |-> "",
                   body |-> IF Len(body2) > limit
                            THEN Prefix(body2, limit) ELSE body2]

\* ------------------------------------------------------------------ main
n_retries_fetch == 10   \* get_latest_data's n_retries
n_retries_tweet == 1    \* send_tweet's n_retries

VARIABLES
  now,                 \* the day datetime.now() returns
  runs,                \* invocations of main() so far
  s3_object,           \* the records file in the bucket
  pc,                  \* where the current invocation stands
  result,              \* how the invocation ended: "return 0", "return 1" or
                       \* the exception that left main(); "" while it runs
  completed,           \* every earlier invocation returned 0, with record and tweet
  options,             \* tweet, record, report_sum_contributions
  s3_error,            \* the exception get_object raised in this run, or ""
  records_df,
  fetches,             \* failed calls of get_check_errors by the get_json in progress
  latest_json,         \* <<>> is None
  latest_df,
  grouped_records_df,
  grouped_latest_df,
  i,                   \* the row of grouped_latest_df the loop is at
  tweet_body,
  n_retries,           \* send_tweet's remaining retries
  attempts,            \* create_tweet calls for the current message
  tweet_result,        \* TRUE when the last create_tweet returned
  log,                 \* what became of each row the loop has passed
  writes,              \* put_object calls of this run that succeeded
  sleeps,              \* sleep(between_tweets_time) calls of this run
  args                 \* the arguments of a function that is called on its
                       \* own; <<>> under main()

vars ==
  <<now, runs, s3_object, pc, result, completed, options, s3_error, records_df, fetches,
    latest_json, latest_df, grouped_records_df, grouped_latest_df, i,
    tweet_body, n_retries, attempts, tweet_result, log, writes, sleeps,
    args>>

Options ==
  [tweet : BOOLEAN, record : BOOLEAN, report_sum_contributions : BOOLEAN]

DefaultOptions ==
  [tweet |-> TRUE, record |-> TRUE, report_sum_contributions |-> TRUE]

\* Days between two invocations.
Gaps == {1, WindowDays}

\* The exceptions get_object can raise; the first two are ClientErrors.
S3Errors(object) ==
  (IF object.exists THEN {""} ELSE {"NoSuchKey"})
    \cup {"AccessDenied", "EndpointConnectionError"}

IsClientError(err) == err \in {"NoSuchKey", "AccessDenied"}

\* The local state of an invocation that has not started.
Fresh ==
  /\ s3_error = ""
  /\ records_df = <<>>
  /\ fetches = 0
  /\ latest_json = <<>>
  /\ latest_df = <<>>
  /\ grouped_records_df = <<>>
  /\ grouped_latest_df = <<>>
  /\ i = 1
  /\ tweet_body = <<>>
  /\ n_retries = n_retries_tweet
  /\ attempts = 0
  /\ tweet_result = FALSE
  /\ log = <<>>
  /\ writes = 0
  /\ sleeps = 0

Init ==
  /\ now = Day0
  /\ runs = 0
  /\ s3_object = [exists |-> FALSE, body |-> <<>>]
  /\ pc = "idle"
  /\ result = ""
  /\ completed = TRUE
  /\ options = DefaultOptions
  /\ Fresh
  /\ args = <<>>

\* The scheduler invokes main(), lines 272-285: for the first time, after
\* the last invocation has ended, or after the host has stopped it while it
\* was notifying.
StartRun ==
  /\ pc \in {"idle", "done", "loop", "send", "sent"}
  /\ runs < MaxRuns
  /\ runs' = runs + 1
  /\ \E gap \in (IF runs = 0 THEN {0} ELSE Gaps) : now' = now + gap
  /\ options' \in Options
  /\ pc' = "get_records"
  /\ result' = ""
  /\ completed' = (runs = 0 \/ (/\ completed
                                /\ result = "return 0"
                                /\ options.record
                                /\ options.tweet))
  /\ s3_error' = ""
  /\ records_df' = <<>>
  /\ fetches' = 0
  /\ latest_json' = <<>>
  /\ latest_df' = <<>>
  /\ grouped_records_df' = <<>>
  /\ grouped_latest_df' = <<>>
  /\ i' = 1
  /\ tweet_body' = <<>>
  /\ n_retries' = n_retries_tweet
  /\ attempts' = 0
  /\ tweet_result' = FALSE
  /\ log' = <<>>
  /\ writes' = 0
  /\ sleeps' = 0
  /\ UNCHANGED <<s3_object, args>>

\* The exception exc leaves main().
Raise(exc) ==
  /\ pc' = "done"
  /\ result' = exc

\* get_records, lines 37-54
GetRecords ==
  /\ pc = "get_records"
  /\ \E err \in S3Errors(s3_object) :
       /\ s3_error' = err
       /\ IF err = ""
          THEN /\ records_df' = ReadCsv(s3_object.body)
               /\ pc' = "trim"
               /\ UNCHANGED result
          ELSE IF IsClientError(err)
          THEN /\ records_df' = <<>>
               /\ pc' = "trim"
               /\ UNCHANGED result
          ELSE /\ Raise(err)
               /\ UNCHANGED records_df
  /\ UNCHANGED <<args, completed, now, runs, s3_object, options, fetches, latest_json, latest_df,
                 grouped_records_df, grouped_latest_df, i, tweet_body,
                 n_retries, attempts, tweet_result, log, writes, sleeps>>

\* main, lines 291-295
Trim ==
  /\ pc = "trim"
  /\ records_df' = TrimRecords(records_df, now, WindowDays)
  /\ pc' = "fetch"
  /\ UNCHANGED <<args, completed, now, runs, s3_object, result, options, s3_error, fetches,
                 latest_json, latest_df, grouped_records_df, grouped_latest_df,
                 i, tweet_body, n_retries, attempts, tweet_result, log, writes,
                 sleeps>>

\* get_json, lines 110-123: one call of get_check_errors, which returns None
\* or the parsed JSON; get_json returns at the first data or after n_retries
\* calls (one call when n_retries < 1).
get_json(retries) ==
  /\ pc = "fetch"
  /\ \E data \in {<<>>} \cup {<<p>> : p \in Payloads} :
       /\ latest_json' = data
       /\ IF data # <<>> \/ fetches + 1 >= retries
          THEN pc' = "latest" /\ fetches' = 0
          ELSE pc' = "fetch" /\ fetches' = fetches + 1
  /\ UNCHANGED <<args, completed, now, runs, s3_object, result, options, s3_error, records_df,
                 latest_df, grouped_records_df, grouped_latest_df, i,
                 tweet_body, n_retries, attempts, tweet_result, log, writes,
                 sleeps>>

\* get_latest_data calls get_latest_expenditures(n_retries), which calls
\* get_json, lines 145 and 134.
GetJson == get_json(n_retries_fetch)

\* Mutant of GetLatestData: a missing payload is taken for an empty frame
\* instead of returning None.
GetLatestData_NoneAsEmpty ==
  /\ pc = "latest"
  /\ IF latest_json = <<>> \/ ~latest_json[1].isdict
     THEN /\ latest_df' = <<>>
          /\ pc' = "record"
          /\ UNCHANGED result
     ELSE IF ~latest_json[1].wellformed
     THEN /\ Raise("KeyError")
          /\ UNCHANGED latest_df
     ELSE IF Normalize(latest_json[1].indexp).exc # ""
     THEN /\ Raise(Normalize(latest_json[1].indexp).exc)
          /\ UNCHANGED latest_df
     ELSE /\ latest_df' =
               NewRows(Normalize(latest_json[1].indexp).rows, records_df, now)
          /\ pc' = "record"
          /\ UNCHANGED result
  /\ UNCHANGED <<args, completed, now, runs, s3_object, options, s3_error, records_df,
                 fetches, latest_json, grouped_records_df, grouped_latest_df, i,
                 tweet_body, n_retries, attempts, tweet_result, log, writes,
                 sleeps>>

\* get_latest_data after the fetch, lines 146-173, and main, lines 298-307
GetLatestData ==
  /\ pc = "latest"
  /\ IF latest_json = <<>> \/ ~latest_json[1].isdict
     THEN /\ pc' = "done"
          /\ result' = "return 1"
          /\ UNCHANGED latest_df
     ELSE IF ~latest_json[1].wellformed
     THEN /\ Raise("KeyError")
          /\ UNCHANGED latest_df
     ELSE IF Normalize(latest_json[1].indexp).exc # ""
     THEN /\ Raise(Normalize(latest_json[1].indexp).exc)
          /\ UNCHANGED latest_df
     ELSE /\ latest_df' =
               NewRows(Normalize(latest_json[1].indexp).rows, records_df, now)
          /\ pc' = "record"
          /\ UNCHANGED result
  /\ UNCHANGED <<args, completed, now, runs, s3_object, options, s3_error, records_df, fetches,
                 latest_json, grouped_records_df, grouped_latest_df, i,
                 tweet_body, n_retries, attempts, tweet_result, log, writes,
                 sleeps>>

\* Mutant of WriteRecords: the store is not written before the loop.
WriteRecords_NotPersisted ==
  /\ pc = "record"
  /\ records_df' = IF options.record THEN records_df \o latest_df ELSE records_df
  /\ pc' = "group"
  /\ UNCHANGED <<args, completed, now, runs, s3_object, result, options, s3_error,
                 fetches, latest_json, latest_df, grouped_records_df,
                 grouped_latest_df, i, tweet_body, n_retries, attempts,
                 tweet_result, log, writes, sleeps>>

\* Mutant of WriteRecords: the new records are added whatever record is.
WriteRecords_AlwaysRecords ==
  /\ pc = "record"
  /\ records_df' = records_df \o latest_df
  /\ \E stored \in BOOLEAN :
       IF stored
       THEN /\ s3_object' = [exists |-> TRUE, body |-> ToCsv(records_df')]
            /\ writes' = writes + 1
            /\ pc' = "group"
            /\ UNCHANGED result
       ELSE /\ Raise("S3UploadFailedError")
            /\ UNCHANGED <<s3_object, writes>>
  /\ UNCHANGED <<args, completed, now, runs, options, s3_error, fetches,
                 latest_json, latest_df, grouped_records_df, grouped_latest_df,
                 i, tweet_body, n_retries, attempts, tweet_result, log, sleeps>>

\* main, lines 309-314, and write_records, lines 59-61; put_object may raise.
WriteRecords ==
  /\ pc = "record"
  /\ records_df' = IF options.record THEN records_df \o latest_df ELSE records_df
  /\ \E stored \in BOOLEAN :
       IF stored
       THEN /\ s3_object' = [exists |-> TRUE, body |-> ToCsv(records_df')]
            /\ writes' = writes + 1
            /\ pc' = "group"
            /\ UNCHANGED result
       ELSE /\ Raise("S3UploadFailedError")
            /\ UNCHANGED <<s3_object, writes>>
  /\ UNCHANGED <<args, completed, now, runs, options, s3_error, fetches, latest_json, latest_df,
                 grouped_records_df, grouped_latest_df, i, tweet_body,
                 n_retries, attempts, tweet_result, log, sleeps>>

\* main, lines 316-324
Group ==
  /\ pc = "group"
  /\ grouped_records_df' = GroupBy(records_df, group_cols)
  /\ grouped_latest_df' = GroupBy(latest_df, latest_group_cols)
  /\ pc' = "loop"
  /\ UNCHANGED <<args, completed, now, runs, s3_object, result, options, s3_error, records_df,
                 fetches, latest_json, latest_df, i, tweet_body, n_retries,
                 attempts, tweet_result, log, writes, sleeps>>

\* Mutant of Caught: the loop has no except clause.
Caught_Nothing(exc) == FALSE

\* The bare except clause of main, lines 354-356, takes every exception of
\* the try block.
Caught(exc) == TRUE

\* One pass of the loop up to the call of send_tweet, lines 327-349 and
\* 354-356: the row is below the minimum, or get_tweet_body raises and the
\* except clause takes the row, or the body is printed only, or it goes to
\* send_tweet.
Iterate ==
  /\ pc = "loop"
  /\ i <= Len(grouped_latest_df)
  /\ LET row == grouped_latest_df[i]
         sum_contribution ==
           SumContribution(grouped_records_df, row,
                           options.report_sum_contributions)
         rendered == get_tweet_body(row, sum_contribution, WindowDays, char_limit)
     IN IF row.amount < MinReportAmt
        THEN /\ log' = Append(log, "below")
             /\ i' = i + 1
             /\ UNCHANGED <<pc, result, tweet_body, n_retries, attempts>>
        ELSE IF rendered.exc # ""
        THEN IF Caught(rendered.exc)
             THEN /\ log' = Append(log, "raised")
                  /\ i' = i + 1
                  /\ UNCHANGED <<pc, result, tweet_body, n_retries, attempts>>
             ELSE /\ Raise(rendered.exc)
                  /\ UNCHANGED <<log, i, tweet_body, n_retries, attempts>>
        ELSE IF options.tweet
        THEN /\ tweet_body' = rendered.body
             /\ n_retries' = n_retries_tweet
             /\ attempts' = 0
             /\ pc' = "send"
             /\ UNCHANGED <<log, i, result>>
        ELSE /\ log' = Append(log, "printed")
             /\ i' = i + 1
             /\ UNCHANGED <<pc, result, tweet_body, n_retries, attempts>>
  /\ UNCHANGED <<args, completed, now, runs, s3_object, options, s3_error, records_df, fetches,
                 latest_json, latest_df, grouped_records_df, grouped_latest_df,
                 tweet_result, writes, sleeps>>

\* Mutant of TrySendTweet: the loop goes on after a create_tweet that
\* returned.
TrySendTweet_NoBreak ==
  /\ pc = "send"
  /\ attempts' = attempts + 1
  /\ \E created \in BOOLEAN :
       /\ tweet_result' = created
       /\ IF n_retries = 0
          THEN pc' = "sent" /\ UNCHANGED n_retries
          ELSE pc' = "send" /\ n_retries' = n_retries - 1
  /\ UNCHANGED <<args, completed, now, runs, s3_object, result, options, s3_error,
                 records_df, fetches, latest_json, latest_df,
                 grouped_records_df, grouped_latest_df, i, tweet_body, log,
                 writes, sleeps>>

\* send_tweet, lines 249-267: one call of create_tweet, which returns or
\* raises; after a failure the loop retries while n_retries is not 0.
TrySendTweet ==
  /\ pc = "send"
  /\ attempts' = attempts + 1
  /\ \E created \in BOOLEAN :
       /\ tweet_result' = created
       /\ IF created \/ n_retries = 0
          THEN pc' = "sent" /\ UNCHANGED n_retries
          ELSE pc' = "send" /\ n_retries' = n_retries - 1
  /\ UNCHANGED <<args, completed, now, runs, s3_object, result, options, s3_error, records_df,
                 fetches, latest_json, latest_df, grouped_records_df,
                 grouped_latest_df, i, tweet_body, log, writes, sleeps>>

\* Mutant of AfterTweet: a dispatch that failed raises out of main.
AfterTweet_FailureRaises ==
  /\ pc = "sent"
  /\ log' = Append(log, IF tweet_result THEN "tweeted" ELSE "failed")
  /\ IF tweet_result
     THEN /\ sleeps' = sleeps + 1
          /\ i' = i + 1
          /\ pc' = "loop"
          /\ UNCHANGED result
     ELSE /\ Raise("TweepyException")
          /\ UNCHANGED <<sleeps, i>>
  /\ UNCHANGED <<args, completed, now, runs, s3_object, options, s3_error, records_df,
                 fetches, latest_json, latest_df, grouped_records_df,
                 grouped_latest_df, tweet_body, n_retries, attempts,
                 tweet_result, writes>>

\* Mutant of AfterTweet: the loop sleeps only after a tweet that was sent.
AfterTweet_SleepOnSuccess ==
  /\ pc = "sent"
  /\ log' = Append(log, IF tweet_result THEN "tweeted" ELSE "failed")
  /\ sleeps' = IF tweet_result THEN sleeps + 1 ELSE sleeps
  /\ i' = i + 1
  /\ pc' = "loop"
  /\ UNCHANGED <<args, completed, now, runs, s3_object, result, options, s3_error,
                 records_df, fetches, latest_json, latest_df,
                 grouped_records_df, grouped_latest_df, tweet_body, n_retries,
                 attempts, tweet_result, writes>>

\* main, lines 350-353: the outcome is reported and the loop sleeps.
AfterTweet ==
  /\ pc = "sent"
  /\ log' = Append(log, IF tweet_result THEN "tweeted" ELSE "failed")
  /\ sleeps' = sleeps + 1
  /\ i' = i + 1
  /\ pc' = "loop"
  /\ UNCHANGED <<args, completed, now, runs, s3_object, result, options, s3_error, records_df,
                 fetches, latest_json, latest_df, grouped_records_df,
                 grouped_latest_df, tweet_body, n_retries, attempts,
                 tweet_result, writes>>

\* main, line 364
Return ==
  /\ pc = "loop"
  /\ i > Len(grouped_latest_df)
  /\ pc' = "done"
  /\ result' = "return 0"
  /\ UNCHANGED <<args, completed, now, runs, s3_object, options, s3_error, records_df, fetches,
                 latest_json, latest_df, grouped_records_df, grouped_latest_df,
                 i, tweet_body, n_retries, attempts, tweet_result, log, writes,
                 sleeps>>

Next ==
  \/ StartRun
  \/ GetRecords
  \/ Trim
  \/ GetJson
  \/ GetLatestData
  \/ WriteRecords
  \/ Group
  \/ Iterate
  \/ TrySendTweet
  \/ AfterTweet
  \/ Return

Spec == Init /\ [][Next]_vars

\* -------------------------------------------------- send_tweet on its own
MaxRetries == 4

Messages == {Chars("Acme"), Chars("Vox"), Chars("Ink")}

\* send_tweet(message, client, n_retries), line 249, is called.
CallSendTweet ==
  /\ pc = "idle"
  /\ \E message \in Messages, n \in 0..MaxRetries :
       /\ args' = [message |-> message, n_retries |-> n]
       /\ tweet_body' = message
       /\ n_retries' = n
  /\ attempts' = 0
  /\ tweet_result' = FALSE
  /\ pc' = "send"
  /\ UNCHANGED <<completed, now, runs, s3_object, result, options, s3_error,
                 records_df, fetches, latest_json, latest_df,
                 grouped_records_df, grouped_latest_df, i, log, writes, sleeps>>

\* send_tweet returns, line 267.
ReturnSendTweet ==
  /\ pc = "sent"
  /\ pc' = "idle"
  /\ UNCHANGED <<args, completed, now, runs, s3_object, result, options, s3_error,
                 records_df, fetches, latest_json, latest_df,
                 grouped_records_df, grouped_latest_df, i, tweet_body,
                 n_retries, attempts, tweet_result, log, writes, sleeps>>

NextSend ==
  \/ CallSendTweet
  \/ TrySendTweet
  \/ ReturnSendTweet

SpecSend == Init /\ [][NextSend]_vars

\* ---------------------------------------------------- get_json on its own
MaxBudget == 3

\* get_json(url, n_retries=retries), line 110, is called.
CallGetJson ==
  /\ pc = "idle"
  /\ \E retries \in 0..MaxBudget : args' = [n_retries |-> retries]
  /\ fetches' = 0
  /\ latest_json' = <<>>
  /\ pc' = "fetch"
  /\ UNCHANGED <<completed, now, runs, s3_object, result, options, s3_error,
                 records_df, latest_df, grouped_records_df, grouped_latest_df,
                 i, tweet_body, n_retries, attempts, tweet_result, log, writes,
                 sleeps>>

GetJsonAny == get_json(args.n_retries)

\* get_json has returned data, line 123.
ReturnGetJson ==
  /\ pc = "latest"
  /\ pc' = "idle"
  /\ UNCHANGED <<args, completed, now, runs, s3_object, result, options, s3_error,
                 records_df, fetches, latest_json, latest_df,
                 grouped_records_df, grouped_latest_df, i, tweet_body,
                 n_retries, attempts, tweet_result, log, writes, sleeps>>

NextFetch ==
  \/ CallGetJson
  \/ GetJsonAny
  \/ ReturnGetJson

SpecFetch == Init /\ [][NextFetch]_vars

\* ------------------------------------- main from the new records onward
\* The entries of the snapshots: usual ones and ones with a blank district,
\* note or party.
NotifyEntries == {1, 2, 3, 8, 9, 12, 13}

NotifyFeeds ==
  UNION {{[k \in 1..n |-> Entries[f[k]]] :
            f \in {g \in [1..n -> NotifyEntries] :
                     \A k \in 1..(n - 1) : g[k] <= g[k + 1]}} : n \in 0..MaxFeed}

\* main at line 309 of its first invocation: get_records found no object
\* and get_latest_data has returned the new records of the snapshot.
InitNotify ==
  /\ now = Day0
  /\ runs = 1
  /\ s3_object = [exists |-> FALSE, body |-> <<>>]
  /\ pc = "record"
  /\ result = ""
  /\ completed = TRUE
  /\ options \in Options
  /\ s3_error = "NoSuchKey"
  /\ records_df = <<>>
  /\ fetches = 0
  /\ \E f \in NotifyFeeds :
       /\ latest_json = <<[isdict |-> TRUE, wellformed |-> TRUE, indexp |-> f]>>
       /\ Normalize(f).exc = ""
       /\ latest_df = NewRows(Normalize(f).rows, <<>>, Day0)
  /\ grouped_records_df = <<>>
  /\ grouped_latest_df = <<>>
  /\ i = 1
  /\ tweet_body = <<>>
  /\ n_retries = n_retries_tweet
  /\ attempts = 0
  /\ tweet_result = FALSE
  /\ log = <<>>
  /\ writes = 0
  /\ sleeps = 0
  /\ args = <<>>

NextNotify ==
  \/ WriteRecords
  \/ Group
  \/ Iterate
  \/ TrySendTweet
  \/ AfterTweet
  \/ Return

SpecNotify == InitNotify /\ [][NextNotify]_vars

\* ---------------------------------------------- get_tweet_body on its own
\* The rows of grouped_latest_df for one entry each: usual rows, a name
\* without separator, a state-wide district, a note of LongLen characters.
BodyRows ==
  {GroupBy(Normalize(<<Entries[e]>>).rows, latest_group_cols)[1] :
     e \in {1, 2, 3, 7, 9, 10}}

\* sum_prev_contribution: None, or an amount below, at or above the row's.
BodySums == {<<>>} \cup {<<v>> : v \in {300, 700, 5000, 5300}}

BodyLimits == {0, 40, 50, 100, 280, 400}

\* get_tweet_body(row, sum_prev_contribution, n_prev_days, char_limit) is
\* about to be called.
InitBody ==
  /\ args \in [row : BodyRows, sum_prev_contribution : BodySums,
                char_limit : BodyLimits]
  /\ now = Day0
  /\ runs = 0
  /\ s3_object = [exists |-> FALSE, body |-> <<>>]
  /\ pc = "idle"
  /\ result = ""
  /\ completed = TRUE
  /\ options = DefaultOptions
  /\ Fresh

\* Lines 190-242: the call returns body or raises.
Render ==
  /\ pc = "idle"
  /\ LET rendered == get_tweet_body(args.row, args.sum_prev_contribution,
                                    WindowDays, args.char_limit)
     IN /\ tweet_body' = rendered.body
        /\ result' = IF rendered.exc = "" THEN "return body" ELSE rendered.exc
  /\ pc' = "done"
  /\ UNCHANGED <<args, completed, now, runs, s3_object, options, s3_error,
                 records_df, fetches, latest_json, latest_df,
                 grouped_records_df, grouped_latest_df, i, n_retries, attempts,
                 tweet_result, log, writes, sleeps>>

NextBody == Render

SpecBody == InitBody /\ [][NextBody]_vars

\* ================================================================ claims
\* The feed-sourced fields of a row.
Feed(r) == [c \in FeedCols |-> r[c]]

\* A line of the records file as a typed row.
Stored(line) == [ReadRow(line) EXCEPT !.date = ToDatetime(@)]

\* create_tweet has been called in this invocation.
Dispatched ==
  \/ attempts > 0
  \/ \E j \in 1..Len(log) : log[j] \in {"tweeted", "failed"}

\* get_latest_data has returned a frame to this invocation and, where the
\* invocation has ended, it ended by returning.
Deduped ==
  \/ pc \in {"record", "group", "loop", "send", "sent"}
  \/ pc = "done" /\ result = "return 0"

\* The rows of the payload after normalization.
FreshRows == Normalize(latest_json[1].indexp).rows

\* The trimmed store get_latest_data was called with: records_df, without
\* the new rows once they are concatenated to it.
PriorRecords ==
  IF pc # "record" /\ options.record
  THEN SubSeq(records_df, 1, Len(records_df) - Len(latest_df))
  ELSE records_df

InPriorRecords(r) ==
  \E m \in 1..Len(PriorRecords) : Feed(PriorRecords[m]) = Feed(r)

Count(df, r) == Cardinality({k \in 1..Len(df) : Feed(df[k]) = Feed(r)})

\* get_tweet_body returns a text for row j of grouped_latest_df.
Renders(j) ==
  get_tweet_body(grouped_latest_df[j],
                 SumContribution(grouped_records_df, grouped_latest_df[j],
                                 options.report_sum_contributions),
                 WindowDays, char_limit).exc = ""

Reportable(j) == grouped_latest_df[j].amount >= MinReportAmt

\* C1: when every earlier run completed with recording and sending enabled
\* and the store was read, a record of the feed that is in the persisted
\* store is not counted as new.
C1_NoDuplicateAcrossRuns ==
  (pc = "record" /\ completed /\ options.record /\ options.tweet /\ s3_error = "")
    => \A k \in 1..Len(latest_df) : \A m \in 1..Len(s3_object.body) :
         Feed(Stored(s3_object.body[m])) # Feed(latest_df[k])

\* C2: the new rows are exactly the fresh rows that agree with no row of the
\* store on every feed-sourced field, each as often as the feed lists it;
\* when every fresh row is in the store there is no new row, no grouped row
\* and no dispatch, and once the store is written the invocation ends only
\* by returning 0.
C2_DedupExact ==
  /\ (pc = "done" /\ writes = 1
        /\ \A k \in 1..Len(FreshRows) : InPriorRecords(FreshRows[k]))
       => result = "return 0"
  /\ Deduped =>
      /\ \A k \in 1..Len(FreshRows) :
           Count(latest_df, FreshRows[k]) =
             IF InPriorRecords(FreshRows[k]) THEN 0 ELSE Count(FreshRows, FreshRows[k])
      /\ \A k \in 1..Len(latest_df) : Count(FreshRows, latest_df[k]) > 0
      /\ (\A k \in 1..Len(FreshRows) : InPriorRecords(FreshRows[k]))
           => /\ latest_df = <<>>
              /\ ~Dispatched
              /\ pc \notin {"send", "sent"}
              /\ pc \in {"loop", "done"} => grouped_latest_df = <<>>

C2_Witness ==
  /\ pc = "done" /\ result = "return 0"
  /\ options.tweet
  /\ FreshRows # <<>>
  /\ PriorRecords # <<>>
  /\ \A k \in 1..Len(FreshRows) : InPriorRecords(FreshRows[k])

\* C3: no two records of the store, in memory or as persisted, agree on
\* every feed-sourced field.
C3_StoreUnique ==
  /\ \A k, m \in 1..Len(records_df) :
       k # m => Feed(records_df[k]) # Feed(records_df[m])
  /\ \A k, m \in 1..Len(s3_object.body) :
       k # m => Feed(s3_object.body[k]) # Feed(s3_object.body[m])

\* C4: an invocation writes the store at most once; whenever create_tweet
\* has been called the store has been written, with recording enabled the
\* written object is the merged store and holds every new row; an invocation
\* that returns 0 has written once.
C4_PersistBeforeNotify ==
  /\ writes <= 1
  /\ Dispatched => writes = 1
  /\ (options.record /\ writes = 1) =>
       /\ s3_object.body = ToCsv(records_df)
       /\ \A k \in 1..Len(latest_df) :
            \E m \in 1..Len(s3_object.body) :
              s3_object.body[m] = CsvRow(latest_df[k])
  /\ (pc = "done" /\ result = "return 0") => writes = 1

C4_Witness ==
  /\ pc = "send" /\ attempts = 1
  /\ options.record
  /\ latest_df # <<>>
  /\ writes = 1

\* C5: in an invocation whose read of the store failed for another reason
\* than a missing object, the store is not written and nothing is
\* dispatched.
C5_FailedReadAborts ==
  s3_error \notin {"", "NoSuchKey"} =>
    /\ writes = 0
    /\ ~Dispatched

\* The fetch gave no data, or data that is no JSON object.
NoUsableData == latest_json = <<>> \/ ~latest_json[1].isdict

Unconvertible(d) ==
  /\ \A c \in KeyColumns : Cell(d, c) # NA
  /\ \/ ~IsNumeric(Chars(d.amount))
     \/ Cell(d, "date") # NA /\ ~IsNumeric(Chars(d.date))

\* C7: an entry whose amount or date cannot be converted does not end the
\* invocation with the conversion's exception.
C7_ConversionRowLocal ==
  (/\ pc = "done"
   /\ ~NoUsableData
   /\ latest_json[1].wellformed
   /\ \E k \in 1..Len(latest_json[1].indexp) :
        Unconvertible(latest_json[1].indexp[k]))
    => result # "ValueError"

\* An entry with a missing or blank key field.
LacksKey(d) == \E c \in KeyColumns : Cell(d, c) = NA

\* C8: an entry with a missing or blank key field does not end the
\* invocation with an exception of the normalization, and is never new.
C8_MissingKeyDropped ==
  (/\ pc = "done"
   /\ ~NoUsableData
   /\ latest_json[1].wellformed
   /\ \E k \in 1..Len(latest_json[1].indexp) : LacksKey(latest_json[1].indexp[k]))
    => /\ result # "KeyError"
       /\ \A k \in 1..Len(latest_df) :
            \A c \in KeyColumns : latest_df[k][c] # NA

\* C9: a dispatch that failed all its attempts ends nothing: no exception
\* leaves main after it, and an invocation with sending enabled that
\* returns 0 has passed every grouped row and called create_tweet for every
\* row at or above the minimum that renders.
C9_FailedDispatchNotFatal ==
  /\ (\E j \in 1..Len(log) : log[j] = "failed") => result \in {"", "return 0"}
  /\ pc \in {"loop", "send", "sent"} => Len(log) = i - 1
  /\ (pc = "done" /\ result = "return 0" /\ options.tweet) =>
       /\ Len(log) = Len(grouped_latest_df)
       /\ \A j \in 1..Len(log) :
            (Reportable(j) /\ Renders(j)) => log[j] \in {"tweeted", "failed"}

C9_Witness ==
  /\ pc = "done" /\ result = "return 0"
  /\ Len(log) = 2
  /\ log[1] = "failed"
  /\ log[2] \in {"tweeted", "failed"}

\* C10: an exception of get_tweet_body never leaves main; the row it was
\* raised for is not dispatched, and an invocation that returns 0 has
\* passed every row, rendering and (with sending enabled) dispatching each
\* row at or above the minimum that renders.
C10_RenderFailureCaught ==
  /\ result \notin {"IndexError", "NameError"}
  /\ \A j \in 1..Len(log) :
       (Reportable(j) /\ ~Renders(j)) => log[j] = "raised"
  /\ (pc = "done" /\ result = "return 0") =>
       /\ Len(log) = Len(grouped_latest_df)
       /\ \A j \in 1..Len(log) :
            (Reportable(j) /\ Renders(j)) =>
              log[j] \in (IF options.tweet THEN {"tweeted", "failed"}
                          ELSE {"printed"})

C10_Witness ==
  /\ pc = "done" /\ result = "return 0"
  /\ Len(log) = 2
  /\ log[1] = "raised"
  /\ log[2] = "tweeted"

\* C11: for every bound n_retries >= 0 and every outcome of create_tweet,
\* send_tweet has called create_tweet at most n_retries + 1 times, calls it
\* again only when every call so far failed, and returns None only when
\* n_retries + 1 calls failed.
C11_SendRetryBound ==
  pc \in {"send", "sent"} =>
    /\ attempts <= args.n_retries + 1
    /\ attempts + n_retries >= args.n_retries
    /\ (pc = "send" /\ attempts > 0) => ~tweet_result
    /\ pc = "sent" => attempts >= 1
    /\ (pc = "sent" /\ ~tweet_result) => attempts = args.n_retries + 1

C11_Witness ==
  /\ pc = "sent"
  /\ args.n_retries = 3
  /\ attempts = 2
  /\ tweet_result

\* C12: for every n_retries, a call of get_check_errors by get_json is
\* within the n_retries calls, a further call follows only a call that
\* returned None, and get_json returns None only after n_retries calls.
C12_FetchRetryBound ==
  [][pc = "fetch" =>
       /\ fetches + 1 <= args.n_retries
       /\ pc' = "fetch" => latest_json' = <<>>
       /\ (pc' = "latest" /\ latest_json' = <<>>) => fetches + 1 = args.n_retries]_vars

\* C13: a body get_tweet_body returns is at most char_limit characters
\* long, for every row, sum_prev_contribution and char_limit >= 0.
C13_BodyWithinLimit ==
  (pc = "done" /\ result = "return body") => Len(tweet_body) <= args.char_limit

\* The body before any shortening: what get_tweet_body returns when the
\* limit is out of reach.
FullText ==
  get_tweet_body(args.row, args.sum_prev_contribution, WindowDays,
                 100 * LongLen).body

\* The shortened body is itself over the limit and is cut to it.
C13_Witness ==
  /\ pc = "done" /\ result = "return body"
  /\ args.char_limit = 40
  /\ args.sum_prev_contribution # <<>>
  /\ Len(FullText) > 100
  /\ Len(tweet_body) = 40

\* A candname with the ", " separator and a district of three characters
\* or more.
WellFormed(row) ==
  /\ Len(Split(Chars(row.candname), Chars(", "))) >= 2
  /\ Len(Chars(row.district)) >= 3

\* C14: for a well-formed row whose full text is over a limit of
\* char_limit or more, get_tweet_body returns a body, whatever
\* sum_prev_contribution is.
C14_ShorteningFallback ==
  (/\ pc = "done"
   /\ WellFormed(args.row)
   /\ args.char_limit >= char_limit
   /\ Len(FullText) > args.char_limit)
    => result = "return body"

\* The records get_records loaded, with their dates.
Loaded ==
  IF s3_error = "" THEN [k \in 1..Len(s3_object.body) |-> Stored(s3_object.body[k])]
  ELSE <<>>

Occurs(df, r) == Cardinality({k \in 1..Len(df) : df[k] = r})

\* C15: after the trim records_df holds the loaded records dated at or
\* after now - n_prev_days, each as often as loaded and in the loaded order,
\* and no other record; filtering it again with the same cutoff changes
\* nothing.
C15_TrimExact ==
  (pc = "fetch" /\ fetches = 0) =>
    /\ \A k \in 1..Len(Loaded) :
         Occurs(records_df, Loaded[k]) =
           IF Loaded[k].date < now - WindowDays THEN 0
           ELSE Occurs(Loaded, Loaded[k])
    /\ \A k \in 1..Len(records_df) : Occurs(Loaded, records_df[k]) > 0
    /\ \A k, m \in 1..Len(records_df) :
         k < m => \E a, b \in 1..Len(Loaded) :
                    a < b /\ Loaded[a] = records_df[k] /\ Loaded[b] = records_df[m]
    /\ DateFilter(records_df, now, WindowDays) = records_df

C15_Witness ==
  /\ pc = "fetch" /\ fetches = 0
  /\ \E k \in 1..Len(Loaded) : Loaded[k].date = now - WindowDays
  /\ \E k \in 1..Len(Loaded) : Loaded[k].date < now - WindowDays
  /\ Len(records_df) = 1

\* The rows passed so far for which send_tweet was called.
Sent == {j \in 1..Len(log) : log[j] \in {"tweeted", "failed"}}

\* C16: the loop has slept once for every row whose send_tweet call has
\* ended, sent or not, so whenever send_tweet is called for a row the sleep
\* after every earlier call has happened; without sending nothing sleeps.
C16_SleepAfterDispatch ==
  /\ sleeps = Cardinality(Sent)
  /\ pc \in {"send", "sent"} => (options.tweet /\ sleeps = Cardinality(Sent))
  /\ ~options.tweet => sleeps = 0

C16_Witness ==
  /\ pc = "send" /\ attempts = 0
  /\ Len(log) = 1 /\ log[1] = "failed"
  /\ sleeps = 1

RECURSIVE Total(_)
Total(df) == IF df = <<>> THEN 0 ELSE Head(df).amount + Total(Tail(df))

\* The row of grouped_latest_df a new record is summed into.
Covers(g, r) == \A k \in 1..Len(latest_group_cols) :
                  g[latest_group_cols[k]] = r[latest_group_cols[k]]

\* C17: once the new records are recorded and grouped, every new record is
\* summed into exactly one row of grouped_latest_df, the rows the loop
\* passes, and the rows' amounts add up to the new records' amounts.
C17_AggregationLosesNothing ==
  (pc \in {"loop", "send", "sent"} /\ options.record /\ options.tweet) =>
    /\ \A k \in 1..Len(latest_df) :
         Cardinality({g \in 1..Len(grouped_latest_df) :
                        Covers(grouped_latest_df[g], latest_df[k])}) = 1
    /\ Total(grouped_latest_df) = Total(latest_df)

\* C18: with record and report_sum_contributions, and the store read or
\* found missing, the sum_contribution
\* main hands to get_tweet_body for a row at or above the minimum is an
\* amount and is not below the row's own amount.
C18_CumulativeAtLeastOwn ==
  (/\ pc \in {"loop", "send", "sent"}
   /\ s3_error \in {"", "NoSuchKey"}
   /\ options.record
   /\ options.report_sum_contributions) =>
    \A j \in 1..Len(grouped_latest_df) :
      Reportable(j) =>
        /\ SumContribution(grouped_records_df, grouped_latest_df[j], TRUE) # <<>>
        /\ SumContribution(grouped_records_df, grouped_latest_df[j], TRUE)[1]
             >= grouped_latest_df[j].amount

\* C19: the stored object changes only in the write of line 314, never in
\* the loop; what is written is the trimmed store the run holds, followed by
\* the new records with record and by nothing without it; and the trimmed
\* store is the trim of the object's records when the object was read, and
\* empty when there was no object.
C19_DurableStoreFrame ==
  [][s3_object' # s3_object =>
       /\ pc = "record"
       /\ s3_object'.exists
       /\ s3_object'.body =
            ToCsv(records_df \o (IF options.record THEN latest_df ELSE <<>>))
       /\ s3_error = "" =>
            records_df = TrimRecords(ReadCsv(s3_object.body), now, WindowDays)
       /\ s3_error = "NoSuchKey" => records_df = <<>>]_vars

\* A second run without recording has written the trimmed store it read,
\* without the new records it found.
C19_Witness ==
  /\ pc = "group" /\ writes = 1
  /\ runs = 2 /\ s3_error = ""
  /\ ~options.record
  /\ latest_df # <<>>
  /\ records_df # <<>>
  /\ s3_object.body = ToCsv(records_df)

====
